---- MODULE Spec2Model ----
(***************************************************************************)
(* A model of the Pi camera client: client.py (the session supervisor,     *)
(* the message router, the keepalive loops, the per-viewer stream workers) *)
(* and camera.py (the PiCamera wrapper).                                   *)
(*                                                                         *)
(* The program is a set of asyncio tasks on one event loop.  A task runs   *)
(* without interruption from one await to the next, so every action below  *)
(* is one such segment: it starts where a task is suspended and runs the   *)
(* code up to the task's next suspension (or its end).  The segments are   *)
(* written as operators from a snapshot of the program state (a record) to *)
(* the next snapshot, so that code that runs in sequence inside one        *)
(* segment composes as it does in the source.                              *)
(***************************************************************************)
EXTENDS Integers, Sequences, FiniteSets, TLC

\* ------------------------------------------------------------------ bounds
\* What the environment does is bounded per run by the record lim, which a
\* specification's initial condition sets from these.
\* Failures the network and the server inject (a dropped connection, a
\* refused registration or connect, a malformed message).
MaxFaults == 2
\* stream_request messages with a client_id the server sends.
MaxWorkers == 2
\* capture_request messages the server sends.
MaxCaptures == 1
\* Changes of the camera hardware's condition.
MaxHwChanges == 1

\* ------------------------------------------------------- program constants
max_init_attempts == 3
max_attempts == 3

Viewers == {"A", "B"}
HwModes == {"ok", "empty", "down"}
Libs == {"picamera2", "legacy"}

VARIABLES
    stop_event,      \* client.py stop_event (is_set)
    sigint,          \* a SIGINT/SIGTERM has been delivered to the process
    token,           \* client.py token: 0 is None, k the token of registration k
    nreg,            \* registration calls made
    websocket,       \* client.py websocket: 0 is None, else a connection's index
    conn,            \* every connection opened so far: "open" or "closed"
    camera,          \* client.py camera: TRUE once the PiCamera object exists
    cam,             \* the PiCamera object's fields
    hw,              \* the camera hardware and backend driver
    env,             \* the process environment: NO_CAMERA, the installed backend
    active_streams,  \* client.py active_streams: a dict viewer -> flag
    mpc,             \* where main() is
    sess,            \* the stack of main_loop() activations and their tasks
    workers,         \* every start_video_stream task created so far: its
                     \* client_id, where it is, (history) whether the
                     \* router has handled a stop_stream for it while it ran,
                     \* and (timing) whether it has been asleep since the
                     \* router began its wait before reconnecting
    ipc,             \* where the running PiCamera.initialize() is
    cpc,             \* where the running PiCamera.capture_image() is (n: the
                     \* attempts its call of initialize() has made so far)
    fs,              \* the files capture_image has created and not removed
    ncap,            \* capture_image file names generated
    faults,          \* failures injected so far
    lim,             \* what the environment may do in this run
    ev               \* what the last step sent on a connection

vars == <<stop_event, sigint, token, nreg, websocket, conn, camera, cam, hw, env,
          active_streams, mpc, sess, workers, ipc, cpc, fs, ncap, faults, lim, ev>>

\* The program state as one record, and its assignment to the next state.
S == [stop_event |-> stop_event, sigint |-> sigint, token |-> token, nreg |-> nreg,
      websocket |-> websocket, conn |-> conn, camera |-> camera, cam |-> cam,
      hw |-> hw, env |-> env, active_streams |-> active_streams, mpc |-> mpc,
      sess |-> sess, workers |-> workers, ipc |-> ipc, cpc |-> cpc, fs |-> fs,
      ncap |-> ncap, faults |-> faults, lim |-> lim, ev |-> ev]

Apply(s) ==
    /\ stop_event' = s.stop_event
    /\ sigint' = s.sigint
    /\ token' = s.token
    /\ nreg' = s.nreg
    /\ websocket' = s.websocket
    /\ conn' = s.conn
    /\ camera' = s.camera
    /\ cam' = s.cam
    /\ hw' = s.hw
    /\ env' = s.env
    /\ active_streams' = s.active_streams
    /\ mpc' = s.mpc
    /\ sess' = s.sess
    /\ workers' = s.workers
    /\ ipc' = s.ipc
    /\ cpc' = s.cpc
    /\ fs' = s.fs
    /\ ncap' = s.ncap
    /\ faults' = s.faults
    /\ lim' = s.lim
    /\ ev' = s.ev

\* What a step sent: op the message's type, by the sending task (a cohort's
\* or a worker's index), tag its client_id, c the connection, prof the
\* capture profile a frame was taken with.  op "connect" is the request
\* websockets.connect() makes, tok the token in its URL.
NoEv == [op |-> "none", by |-> 0, tag |-> "-", c |-> 0, prof |-> "-", tok |-> 0]

\* websocket.open
WsOpen(s) == s.websocket # 0 /\ s.conn[s.websocket] = "open"

\* ------------------------------------------------------------- camera.py

\* PiCamera.__init__
NewCam == [handle |-> FALSE, initialized |-> FALSE, camera_type |-> "none",
           current_attempt |-> 0, streaming_config |-> "none"]

\* PiCamera.cleanup(partial)
cleanup(s, partial) ==
    LET s1 == IF s.cam.handle
              THEN [s EXCEPT !.cam.handle = FALSE, !.cam.initialized = FALSE,
                             !.hw.profile = "none"]
              ELSE s
    IN  IF ~partial /\ ~s.env.no_camera
        THEN [s1 EXCEPT !.fs = {f \in @ : f.dir # "temp_dir"}]
        ELSE s1

\* A PiCamera.initialize that allows one attempt more than the budget.
initialize_extra_attempt(s) ==
    IF s.env.no_camera
    THEN [s |-> [s EXCEPT !.ipc = "idle"], ret |-> "false"]
    ELSE LET s1 == [s EXCEPT !.cam.current_attempt = @ + 1] IN
         IF s1.hw.mode # "down"
         THEN [s |-> [s1 EXCEPT !.cam.handle = TRUE,
                                !.hw.profile = IF s.env.lib = "picamera2"
                                               THEN "still" ELSE "legacy",
                                !.ipc = "warm"],
               ret |-> "pending"]
         ELSE IF s1.cam.current_attempt <= max_init_attempts
              THEN [s |-> [s1 EXCEPT !.ipc = "delay"], ret |-> "pending"]
              ELSE [s |-> [s1 EXCEPT !.ipc = "idle"], ret |-> "false"]

\* PiCamera.initialize from its entry (or from its recursive call after the
\* 10 s delay) to its first await or its return.  ret is "pending" while the
\* call is suspended (s.ipc says where), "true" or "false" when it returned.
initialize(s) ==
    IF s.env.no_camera
    THEN [s |-> [s EXCEPT !.ipc = "idle"], ret |-> "false"]
    ELSE LET s1 == [s EXCEPT !.cam.current_attempt = @ + 1] IN
         IF s1.hw.mode # "down"
         THEN \* _try_initialize_picamera2 / _try_initialize_legacy up to the
              \* warm-up sleep: the backend object is created and configured
              [s |-> [s1 EXCEPT !.cam.handle = TRUE,
                                !.hw.profile = IF s.env.lib = "picamera2"
                                               THEN "still" ELSE "legacy",
                                !.ipc = "warm"],
               ret |-> "pending"]
         ELSE IF s1.cam.current_attempt < max_init_attempts
              THEN [s |-> [s1 EXCEPT !.ipc = "delay"], ret |-> "pending"]
              ELSE [s |-> [s1 EXCEPT !.ipc = "idle"], ret |-> "false"]

\* PiCamera.initialize resumed after an await.
initialize_resume(s) ==
    IF s.ipc = "warm"
    THEN [s |-> [s EXCEPT !.cam.initialized = TRUE,
                          !.cam.camera_type = s.env.lib,
                          !.ipc = "idle"],
          ret |-> "true"]
    ELSE initialize(s)


\* PiCamera.capture_image: one attempt of the legacy backend's capture loop,
\* a the attempt index, f the file name generated for this capture.
legacy_attempt(s, f, a) ==
    LET written(size) == (s.fs \ {g \in s.fs : g.dir = "temp_dir" /\ g.id = f})
                            \cup {[dir |-> "temp_dir", id |-> f, size |-> size]}
        s1 == IF s.hw.mode = "ok" THEN [s EXCEPT !.fs = written("data")]
              ELSE IF s.hw.mode = "empty" THEN [s EXCEPT !.fs = written("empty")]
              ELSE s
    IN  IF s.hw.mode = "ok"
        THEN [s |-> [s1 EXCEPT !.cpc.pc = "idle"], ret |-> "path", f |-> f]
        ELSE IF a < max_attempts - 1
             THEN [s |-> [s1 EXCEPT !.cpc.pc = "retry", !.cpc.a = a + 1, !.cpc.f = f],
                   ret |-> "pending", f |-> f]
             ELSE \* the last attempt raises: the outer handler reinitializes
                  [s |-> [cleanup(s1, TRUE) EXCEPT !.cpc.pc = "reinit_sleep"],
                   ret |-> "pending", f |-> f]

\* PiCamera.capture_image with the picamera2 backend: capture to a scratch
\* file, verify, rename to the final path; remove the scratch file on error.
picamera2_capture(s, f) ==
    LET tmp == [dir |-> "tmp", id |-> f, size |-> "empty"]
        s1 == [s EXCEPT !.fs = @ \cup {tmp}]
    IN  IF s.hw.mode = "ok"
        THEN [s |-> [s1 EXCEPT !.fs = (@ \ {tmp})
                                  \cup {[dir |-> "temp_dir", id |-> f, size |-> "data"]},
                               !.cpc.pc = "idle"],
              ret |-> "path", f |-> f]
        ELSE [s |-> [cleanup([s1 EXCEPT !.fs = @ \ {tmp}], TRUE)
                        EXCEPT !.cpc.pc = "reinit_sleep"],
              ret |-> "pending", f |-> f]

\* PiCamera.capture_image from its entry to its first await or its return:
\* ret is "path" (f the file), "none" or "pending".
capture_image(s) ==
    IF s.env.no_camera \/ ~s.cam.initialized \/ ~s.cam.handle
    THEN [s |-> s, ret |-> "none", f |-> 0]
    ELSE LET f == s.ncap + 1
             s1 == [s EXCEPT !.ncap = f]
         IN  IF s.cam.camera_type = "picamera2"
             THEN picamera2_capture(s1, f)
             ELSE legacy_attempt(s1, f, 0)

\* PiCamera.capture_image resumed after an await.
capture_image_resume(s) ==
    IF s.cpc.pc = "retry"
    THEN legacy_attempt(s, s.cpc.f, s.cpc.a)
    ELSE LET r == IF s.cpc.pc = "reinit_sleep" THEN initialize(s)
                  ELSE initialize_resume(s)
         IN  IF r.ret = "pending"
             THEN [s |-> [r.s EXCEPT !.cpc.pc = "init",
                                     !.cpc.n = @ + r.s.cam.current_attempt
                                                 - s.cam.current_attempt],
                   ret |-> "pending", f |-> 0]
             ELSE [s |-> [r.s EXCEPT !.cpc.pc = "idle"], ret |-> "none", f |-> 0]

\* PiCamera.capture_frame: capture_array() / capture(stream) on the backend.
capture_array(s) ==
    IF ~s.cam.handle \/ s.hw.mode = "down"
          \/ (s.cam.camera_type = "legacy" /\ s.hw.mode # "ok")
    THEN [s |-> s, ret |-> "backoff", prof |-> "-"]
    ELSE [s |-> s, ret |-> "frame", prof |-> s.hw.profile]

\* PiCamera.capture_frame(STREAM_RESOLUTION) from its entry to its first await
\* or its return: ret is "frame", "none", "adjust" (the sleep after a
\* reconfiguration) or "backoff" (the sleep after an exception).
capture_frame(s) ==
    IF s.env.no_camera \/ ~s.cam.initialized \/ ~s.cam.handle
    THEN [s |-> s, ret |-> "none", prof |-> "-"]
    ELSE IF s.cam.camera_type = "picamera2" /\ s.cam.streaming_config # "stream"
         THEN LET s1 == [s EXCEPT !.cam.streaming_config = "stream"] IN
              IF s.hw.mode = "down"
              THEN [s |-> s1, ret |-> "backoff", prof |-> "-"]
              ELSE [s |-> [s1 EXCEPT !.hw.profile = "stream"], ret |-> "adjust",
                    prof |-> "-"]
         ELSE capture_array(s)


\* ------------------------------------------------------------- client.py

Top(s) == Len(s.sess)

\* A main_loop() activation and the cohort it started: ml is where the
\* activation is, h/ping/status where its three tasks are ("none": not
\* created), c the connection the cohort was started on.
NewAct == [ml |-> "enter", h |-> "none", ping |-> "none", status |-> "none", c |-> 0]
CpcIdle == [pc |-> "idle", a |-> 0, f |-> 0, v |-> "-", n |-> 0]
EmptyDict == [x \in {} |-> TRUE]

\* active_streams.get(v, False)
Flag(s, v) == v \in DOMAIN s.active_streams /\ s.active_streams[v]

\* await websocket.send(...): ch = "fail" is the connection dropping under
\* the send.  ok is FALSE when the send raised ConnectionClosed.
send(s, ch) ==
    IF ~WsOpen(s) THEN [s |-> s, ok |-> FALSE]
    ELSE IF ch = "fail"
         THEN [s |-> [s EXCEPT !.conn[s.websocket] = "closed", !.faults = @ + 1],
               ok |-> FALSE]
         ELSE [s |-> s, ok |-> TRUE]

\* main(): the statements after "await main_loop()" up to the next await.
main_after(s) ==
    IF ~s.stop_event THEN [s EXCEPT !.mpc = "sleep5"] ELSE [s EXCEPT !.mpc = "done"]

\* main_loop(): the finally block, and the return to the caller: main(), or
\* the handle_server_messages() that called main_loop() to reconnect, which
\* ends with it.
main_loop_return(s) ==
    LET s1 == IF WsOpen(s) THEN [s EXCEPT !.conn[s.websocket] = "closed"] ELSE s
        s2 == IF s1.camera THEN cleanup(s1, FALSE) ELSE s1
        n == Top(s2)
        s3 == [s2 EXCEPT !.sess = SubSeq(@, 1, n - 1)]
    IN  IF n > 1 THEN [s3 EXCEPT !.sess[n - 1].h = "done"] ELSE main_after(s3)

\* A connect_and_register() that registers on every call, whether or not a
\* token is held.
connect_and_register_always(s, ch) ==
    LET n == Top(s) IN
    IF ch = "fail"
    THEN [s EXCEPT !.nreg = @ + 1, !.faults = @ + 1, !.sess[n].ml = "sleep10"]
    ELSE [s EXCEPT !.nreg = @ + 1, !.token = s.nreg + 1, !.sess[n].ml = "connect",
                   !.ev.op = "connect", !.ev.tok = s.nreg + 1]

\* connect_and_register() from its entry to "await websockets.connect(...)":
\* the registration call, unless a token is held.  ch = "fail" is a refused
\* registration.
connect_and_register(s, ch) ==
    LET n == Top(s) IN
    IF s.token = 0
    THEN IF ch = "fail"
         THEN [s EXCEPT !.nreg = @ + 1, !.faults = @ + 1, !.sess[n].ml = "sleep10"]
         ELSE [s EXCEPT !.nreg = @ + 1, !.token = s.nreg + 1, !.sess[n].ml = "connect",
                        !.ev.op = "connect", !.ev.tok = s.nreg + 1]
    ELSE [s EXCEPT !.sess[n].ml = "connect",
                   !.ev.op = "connect", !.ev.tok = s.token]

\* main_loop() after "await camera.initialize()" returned ret.
after_initialize(r, ch) ==
    IF r.ret = "pending" THEN [r.s EXCEPT !.sess[Top(r.s)].ml = "init"]
    ELSE IF r.ret = "false" THEN main_loop_return([r.s EXCEPT !.stop_event = TRUE])
    ELSE connect_and_register(r.s, ch)

\* A main_loop() that the reconnecting router starts without awaiting it:
\* the router goes back to its receive loop.
main_loop_detached(s, ch) ==
    LET s0 == [s EXCEPT !.sess =
                  Append([i \in DOMAIN @ |->
                            IF @[i].h = "nested" THEN [@[i] EXCEPT !.h = "recv"]
                            ELSE @[i]], NewAct)] IN
    IF ~s0.camera
    THEN after_initialize(initialize([s0 EXCEPT !.camera = TRUE, !.cam = NewCam]), ch)
    ELSE connect_and_register(s0, ch)

\* main_loop() from its entry to its first await.
main_loop(s, ch) ==
    LET s0 == [s EXCEPT !.sess = Append(@, NewAct)] IN
    IF ~s0.camera
    THEN after_initialize(initialize([s0 EXCEPT !.camera = TRUE, !.cam = NewCam]), ch)
    ELSE connect_and_register(s0, ch)

\* connect_and_register() resumed when websockets.connect() returned or
\* raised (ch = "fail").
connect_opened(s, ch) ==
    LET n == Top(s) IN
    IF ch = "fail"
    THEN [s EXCEPT !.faults = @ + 1, !.sess[n].ml = "sleep10"]
    ELSE [s EXCEPT !.conn = Append(@, "open"), !.websocket = Len(s.conn) + 1,
                   !.sess[n].ml = "confirm"]

\* A connect_and_register() that returns True on any first message.
connect_confirmed_any(s, ch) ==
    LET n == Top(s) IN
    IF ~WsOpen(s) THEN [s EXCEPT !.sess[n].ml = "sleep10"]
    ELSE [s EXCEPT !.faults = IF ch = "fail" THEN @ + 1 ELSE @,
                   !.sess[n] = [ml |-> "gather",
                                h |-> IF s.stop_event THEN "done" ELSE "recv",
                                ping |-> "run", status |-> "run",
                                c |-> s.websocket]]

\* connect_and_register() resumed when the wait for the confirmation ended:
\* with a message of type connected, or with another message or the timeout
\* (ch = "fail"), or with ConnectionClosed.  On True main_loop() creates the
\* three tasks and awaits them.
connect_confirmed(s, ch) ==
    LET n == Top(s) IN
    IF ~WsOpen(s) THEN [s EXCEPT !.sess[n].ml = "sleep10"]
    ELSE IF ch = "fail" THEN [s EXCEPT !.faults = @ + 1, !.sess[n].ml = "sleep10"]
    ELSE [s EXCEPT !.sess[n] = [ml |-> "gather",
                                h |-> IF s.stop_event THEN "done" ELSE "recv",
                                ping |-> "run", status |-> "run",
                                c |-> s.websocket]]

\* A handle_server_messages() that ends after its receive loop without
\* reconnecting.
handler_exit_no_reconnect(s, i) ==
    IF ~s.stop_event
    THEN [s EXCEPT !.active_streams = EmptyDict, !.sess[i].h = "done"]
    ELSE [s EXCEPT !.sess[i].h = "done"]

\* The workers that are asleep when the router begins its 5 s wait.  Their
\* sleeps (0.1 s, 0.5 s, at most the frame interval) end long before it.
Asleep(ws) ==
    [w \in DOMAIN ws |->
        IF ws[w].pc \in {"pace", "adjust", "backoff", "retry"}
        THEN [ws[w] EXCEPT !.late = TRUE] ELSE ws[w]]

\* handle_server_messages(): the code after the receive loop.
handler_exit(s, i) ==
    IF ~s.stop_event
    THEN [s EXCEPT !.active_streams = EmptyDict, !.sess[i].h = "sleep5",
                   !.workers = Asleep(@)]
    ELSE [s EXCEPT !.sess[i].h = "done"]

\* handle_server_messages(): the loop condition, then the next receive.
handler_loop(s, i) ==
    IF s.stop_event THEN handler_exit(s, i) ELSE [s EXCEPT !.sess[i].h = "recv"]

\* capture_and_send_image(v) after "await camera.capture_image()" returned.
after_capture(r, i, v, ch) ==
    IF r.ret = "pending"
    THEN [r.s EXCEPT !.sess[i].h = "capture", !.cpc.v = v]
    ELSE LET s1 == [r.s EXCEPT !.cpc = CpcIdle] IN
         IF r.ret = "none" THEN handler_loop(s1, i)
         ELSE LET q == send(s1, ch) IN
              IF q.ok
              THEN handler_loop(
                     [q.s EXCEPT !.fs = {g \in @ : ~(g.dir = "temp_dir" /\ g.id = r.f)},
                                 !.ev.op = "image", !.ev.by = i, !.ev.tag = v,
                                 !.ev.c = s1.websocket], i)
              ELSE handler_loop(q.s, i)

\* capture_and_send_image(v) from its entry.
capture_and_send_image(s, i, v, ch) ==
    IF ~s.camera \/ s.websocket = 0 THEN handler_loop(s, i)
    ELSE after_capture(capture_image(s), i, v, ch)


\* The messages the server may send: <<type, client_id>>, "-" for a message
\* without a client_id.  "malformed" is a text that is no JSON object.
Messages ==
    ({"capture_request", "stream_request", "stop_stream"} \X (Viewers \cup {"-"}))
    \cup ({"pong", "error", "other", "malformed"} \X {"-"})

\* A worker inside its streaming loop.
Streaming(wk) == wk.pc \in {"pace", "adjust", "backoff", "retry"}

\* The history of the workers when a message for viewer v is routed: a
\* stop_stream that finds the registry entry marks v's streaming workers, a
\* stream_request clears the marks.
Marked(ws, v, type) ==
    [w \in DOMAIN ws |->
        IF ws[w].cid # v THEN ws[w]
        ELSE IF type = "stop_stream" /\ Streaming(ws[w])
             THEN [ws[w] EXCEPT !.stopped = TRUE]
             ELSE IF type = "stream_request" THEN [ws[w] EXCEPT !.stopped = FALSE]
             ELSE ws[w]]

\* A router that sets the flag on stop_stream without testing that the
\* viewer is in the registry.
route_stop_untested(s, i, msg, ch) ==
    LET type == msg[1]
        v == msg[2]
    IN  CASE type = "capture_request" -> capture_and_send_image(s, i, v, ch)
          [] type = "stream_request" /\ v # "-" ->
                handler_loop([s EXCEPT !.workers =
                                 Append(Marked(@, v, type),
                                        [cid |-> v, pc |-> "spawned",
                                         stopped |-> FALSE, late |-> FALSE])], i)
          [] type = "stop_stream" /\ v # "-" ->
                handler_loop([s EXCEPT !.active_streams =
                                          [x \in DOMAIN @ \cup {v} |->
                                              IF x = v THEN FALSE ELSE @[x]],
                                       !.workers = Marked(@, v, type)], i)
          [] type = "malformed" ->
                handler_exit([s EXCEPT !.faults = @ + 1], i)
          [] OTHER -> handler_loop(s, i)

\* A handle_server_messages() that takes a message of a type it does not
\* know as an error and leaves its loop.
route_unknown_fatal(s, i, msg, ch) ==
    LET type == msg[1]
        v == msg[2]
    IN  CASE type = "capture_request" -> capture_and_send_image(s, i, v, ch)
          [] type = "stream_request" /\ v # "-" ->
                handler_loop([s EXCEPT !.workers =
                                 Append(Marked(@, v, type),
                                        [cid |-> v, pc |-> "spawned",
                                         stopped |-> FALSE, late |-> FALSE])], i)
          [] type = "stop_stream" /\ v # "-" /\ v \in DOMAIN s.active_streams ->
                handler_loop([s EXCEPT !.active_streams[v] = FALSE,
                                       !.workers = Marked(@, v, type)], i)
          [] type \in {"malformed", "other"} ->
                handler_exit([s EXCEPT !.faults = @ + 1], i)
          [] OTHER -> handler_loop(s, i)

\* handle_server_messages(): one message routed, up to the next await.
route(s, i, msg, ch) ==
    LET type == msg[1]
        v == msg[2]
    IN  CASE type = "capture_request" -> capture_and_send_image(s, i, v, ch)
          [] type = "stream_request" /\ v # "-" ->
                handler_loop([s EXCEPT !.workers =
                                 Append(Marked(@, v, type),
                                        [cid |-> v, pc |-> "spawned",
                                         stopped |-> FALSE, late |-> FALSE])], i)
          [] type = "stop_stream" /\ v # "-" /\ v \in DOMAIN s.active_streams ->
                handler_loop([s EXCEPT !.active_streams[v] = FALSE,
                                       !.workers = Marked(@, v, type)], i)
          [] type = "malformed" ->
                handler_exit([s EXCEPT !.faults = @ + 1], i)
          [] OTHER -> handler_loop(s, i)

\* handle_server_messages() resumed when the receive ended: with
\* ConnectionClosed, with the timeout (msg = <<"timeout", "-">>) or with msg.
handle_server_messages(s, i, msg, ch) ==
    IF ~WsOpen(s) THEN handler_exit(s, i)
    ELSE IF msg[1] = "timeout" THEN handler_loop(s, i)
    ELSE route(s, i, msg, ch)

\* A ping_server() / send_status_updates() that leaves its loop when it
\* finds the connection not open.
keepalive_ends_when_closed(s, i, k, ch) ==
    LET done == IF k = "ping" THEN [s EXCEPT !.sess[i].ping = "done"]
                ELSE [s EXCEPT !.sess[i].status = "done"]
    IN  IF s.stop_event THEN done
        ELSE IF WsOpen(s)
             THEN LET q == send(s, ch) IN
                  IF q.ok
                  THEN [q.s EXCEPT !.ev.op = k, !.ev.by = i, !.ev.c = s.websocket]
                  ELSE IF k = "ping" THEN [q.s EXCEPT !.sess[i].ping = "done"]
                       ELSE [q.s EXCEPT !.sess[i].status = "done"]
             ELSE done

\* ping_server() / send_status_updates(): one pass of the loop, from the
\* loop condition to the sleep.  k is "ping" or "status".
keepalive(s, i, k, ch) ==
    LET done == IF k = "ping" THEN [s EXCEPT !.sess[i].ping = "done"]
                ELSE [s EXCEPT !.sess[i].status = "done"]
    IN  IF s.stop_event THEN done
        ELSE IF WsOpen(s)
             THEN LET q == send(s, ch) IN
                  IF q.ok
                  THEN [q.s EXCEPT !.ev.op = k, !.ev.by = i, !.ev.c = s.websocket]
                  ELSE IF k = "ping" THEN [q.s EXCEPT !.sess[i].ping = "done"]
                       ELSE [q.s EXCEPT !.sess[i].status = "done"]
             ELSE s

\* start_video_stream(): the finally block.
worker_exit(s, w) ==
    [s EXCEPT !.active_streams = [x \in DOMAIN @ \ {s.workers[w].cid} |-> @[x]],
              !.workers[w].pc = "done", !.workers[w].stopped = FALSE,
              !.workers[w].late = FALSE]

\* A start_video_stream() whose loop does not test websocket.open.
worker_loop_no_open_test(s, w) ==
    IF Flag(s, s.workers[w].cid) /\ ~s.stop_event
    THEN [s EXCEPT !.workers[w].pc = "pace", !.workers[w].late = FALSE]
    ELSE worker_exit(s, w)

\* start_video_stream(): the loop condition and the check of the connection;
\* then the pacing sleep.
worker_loop(s, w) ==
    IF Flag(s, s.workers[w].cid) /\ ~s.stop_event /\ WsOpen(s)
    THEN [s EXCEPT !.workers[w].pc = "pace", !.workers[w].late = FALSE]
    ELSE worker_exit(s, w)

\* A start_video_stream() that tags its frames with the client_id of the
\* stream requested last instead of its own.
after_frame_last_client(r, w) ==
    CASE r.ret = "adjust" -> [r.s EXCEPT !.workers[w].pc = "adjust"]
      [] r.ret = "backoff" -> [r.s EXCEPT !.workers[w].pc = "backoff"]
      [] r.ret = "none" -> [r.s EXCEPT !.workers[w].pc = "retry"]
      [] OTHER ->
            LET q == send(r.s, "ok") IN
            IF q.ok
            THEN worker_loop([q.s EXCEPT !.ev.op = "frame", !.ev.by = w,
                                         !.ev.tag = r.s.workers[Len(r.s.workers)].cid,
                                         !.ev.c = r.s.websocket,
                                         !.ev.prof = r.prof], w)
            ELSE worker_exit(q.s, w)

\* start_video_stream() after "await camera.capture_frame()" returned, or
\* where capture_frame() is suspended.
after_frame(r, w) ==
    CASE r.ret = "adjust" -> [r.s EXCEPT !.workers[w].pc = "adjust"]
      [] r.ret = "backoff" -> [r.s EXCEPT !.workers[w].pc = "backoff"]
      [] r.ret = "none" -> [r.s EXCEPT !.workers[w].pc = "retry"]
      [] OTHER ->
            LET q == send(r.s, "ok") IN
            IF q.ok
            THEN worker_loop([q.s EXCEPT !.ev.op = "frame", !.ev.by = w,
                                         !.ev.tag = r.s.workers[w].cid,
                                         !.ev.c = r.s.websocket,
                                         !.ev.prof = r.prof], w)
            ELSE worker_exit(q.s, w)

\* start_video_stream(client_id) from its entry: the registry entry is set,
\* and the first pass of the loop runs without a pacing sleep.
start_video_stream(s, w) ==
    LET v == s.workers[w].cid IN
    IF ~s.camera \/ s.websocket = 0 THEN [s EXCEPT !.workers[w].pc = "done"]
    ELSE LET s1 == [s EXCEPT !.active_streams =
                       [x \in DOMAIN @ \cup {v} |-> IF x = v THEN TRUE ELSE @[x]]]
         IN  IF ~s1.stop_event /\ WsOpen(s1)
             THEN after_frame(capture_frame(s1), w)
             ELSE worker_exit(s1, w)

\* start_video_stream() resumed after an await.
worker_resume(s, w) ==
    LET pc == s.workers[w].pc IN
    CASE pc \in {"spawned", "queued"} -> start_video_stream(s, w)
      [] pc = "pace" -> after_frame(capture_frame(s), w)
      [] pc = "adjust" -> after_frame(capture_array(s), w)
      [] pc = "backoff" -> [s EXCEPT !.workers[w].pc = "retry"]
      [] OTHER -> worker_loop(s, w)


\* ---------------------------------------------------------------- actions

Choices == {"ok", "fail"}

\* The snapshot a segment starts from.
Cur == [S EXCEPT !.ev = NoEv]

\* A segment's result is taken unless it needs a failure the budget of the
\* environment does not have.
Step(s) == s.faults <= lim.faults /\ Apply(s)

\* The same for a segment that is offered the failure ch.
StepCh(s, ch) == (ch = "fail" => s.faults > faults) /\ Step(s)

Running == mpc # "done"

\* asyncio.create_task(): the new task is at the head of the ready queue.
\* It takes its first step before any suspended task is resumed, the tasks
\* created earlier first; only the task that created it, as long as it has
\* not suspended ("spawned"), runs before it.  Once another task has run,
\* the creator has suspended ("queued").
Spawned(w) == workers[w].pc \in {"spawned", "queued"}

NoneSpawned == \A w \in 1..Len(workers) : ~Spawned(w)

NoneQueued == \A w \in 1..Len(workers) : workers[w].pc # "queued"

\* asyncio.sleep(5) in handle_server_messages(): the wait ends after every
\* worker that was asleep when it began has come to its loop condition.
NoneLate == \A w \in 1..Len(workers) : ~workers[w].late

Suspended(s) ==
    [s EXCEPT !.workers = [w \in DOMAIN @ |->
                             IF @[w].pc = "spawned"
                             THEN [@[w] EXCEPT !.pc = "queued"] ELSE @[w]]]

\* main(): the while loop, from its condition to "await main_loop()".
Main ==
    /\ mpc \in {"start", "sleep5"} /\ NoneSpawned
    /\ \E ch \in Choices :
          StepCh(IF stop_event THEN [Cur EXCEPT !.mpc = "done"]
                 ELSE main_loop([Cur EXCEPT !.mpc = "await"], ch), ch)

\* The innermost main_loop() activation resumes.
MainLoop ==
    /\ Running /\ sess # <<>> /\ NoneSpawned
    /\ LET n == Len(sess)
           a == sess[n]
       IN  \E ch \in Choices :
             \/ a.ml = "init" /\ StepCh(after_initialize(initialize_resume(Cur), ch), ch)
             \/ a.ml = "connect" /\ StepCh(connect_opened(Cur, ch), ch)
             \/ a.ml = "confirm" /\ StepCh(connect_confirmed(Cur, ch), ch)
             \/ a.ml = "sleep10" /\ StepCh(main_loop_return(Cur), ch)
             \/ /\ a.ml = "gather"
                /\ a.h = "done" /\ a.ping = "done" /\ a.status = "done"
                /\ StepCh(main_loop_return(Cur), ch)

\* What the server may send now.
Sendable(msg) ==
    /\ msg[1] = "capture_request" => ncap < lim.captures
    /\ (msg[1] = "stream_request" /\ msg[2] # "-") => Len(workers) < lim.workers

\* The handle_server_messages() task of cohort i resumes.
Handler(i) ==
    /\ Running /\ i \in 1..Len(sess)
    /\ \E ch \in Choices :
          \/ /\ sess[i].h = "recv"
             /\ \E msg \in Messages \cup {<<"timeout", "-">>} :
                   /\ Sendable(msg) /\ NoneQueued
                   /\ (msg[1] = "timeout" => NoneSpawned)
                   /\ StepCh(handle_server_messages(Cur, i, msg, ch), ch)
          \/ /\ sess[i].h = "capture" /\ NoneSpawned
             /\ StepCh(after_capture(capture_image_resume(Cur), i, cpc.v, ch), ch)
          \/ /\ sess[i].h = "sleep5" /\ NoneSpawned /\ NoneLate
             /\ StepCh(main_loop([Cur EXCEPT !.sess[i].h = "nested"], ch), ch)

\* The ping_server() task of cohort i resumes.
Ping(i) ==
    /\ Running /\ i \in 1..Len(sess) /\ sess[i].ping = "run" /\ NoneSpawned
    /\ \E ch \in Choices : StepCh(keepalive(Cur, i, "ping", ch), ch)

\* The send_status_updates() task of cohort i resumes.
Status(i) ==
    /\ Running /\ i \in 1..Len(sess) /\ sess[i].status = "run" /\ NoneSpawned
    /\ \E ch \in Choices : StepCh(keepalive(Cur, i, "status", ch), ch)

\* The start_video_stream() task w resumes.
Worker(w) ==
    /\ Running /\ w \in 1..Len(workers) /\ workers[w].pc # "done"
    /\ IF Spawned(w) THEN \A u \in 1..(w - 1) : ~Spawned(u) ELSE NoneSpawned
    /\ Step(Suspended(worker_resume(Cur, w)))

\* SIGINT or SIGTERM: the signal handler sets stop_event.
Signal ==
    /\ Running /\ ~sigint /\ lim.signals > 0
    /\ Apply([Cur EXCEPT !.stop_event = TRUE, !.sigint = TRUE])

\* The server or the network closes the current connection.
ConnDrop ==
    /\ Running /\ WsOpen(S) /\ faults < lim.faults
    /\ Apply([Cur EXCEPT !.conn[websocket] = "closed", !.faults = @ + 1])

\* The camera hardware changes its condition.
HwChange ==
    /\ Running /\ hw.changes < lim.hw
    /\ \E m \in HwModes \ {hw.mode} :
          Apply([Cur EXCEPT !.hw.mode = m, !.hw.changes = @ + 1])

\* The state after the module is loaded, in an environment that may do l:
\* the installed backend library, NO_CAMERA and the hardware's condition
\* (one of modes) are the environment's.
InitWith(l, modes) ==
    /\ lim = l
    /\ stop_event = FALSE /\ sigint = FALSE
    /\ token = 0 /\ nreg = 0
    /\ websocket = 0 /\ conn = <<>>
    /\ camera = FALSE /\ cam = NewCam
    /\ hw \in [mode : modes, profile : {"none"}, changes : {0}]
    /\ env \in [no_camera : BOOLEAN, lib : Libs]
    /\ active_streams = EmptyDict
    /\ mpc = "start" /\ sess = <<>> /\ workers = <<>>
    /\ ipc = "idle" /\ cpc = CpcIdle
    /\ fs = {} /\ ncap = 0 /\ faults = 0
    /\ ev = NoEv

Tasks == 1..(MaxFaults + 1)
WorkerIds == 1..MaxWorkers

\* The tasks main_loop() awaits, and main() itself.
Supervisor ==
    \/ Main
    \/ MainLoop
    \/ \E i \in Tasks : Handler(i)
    \/ \E i \in Tasks : Ping(i)
    \/ \E i \in Tasks : Status(i)

\* The supervisor and its cohort against a network that fails: no viewer
\* asks for a stream or a capture, the camera hardware is steady.
InitSession ==
    InitWith([faults |-> MaxFaults, workers |-> 0, captures |-> 0, hw |-> 0,
              signals |-> 1], {"ok", "down"})

NextSession == Supervisor \/ Signal \/ ConnDrop

SpecSession == InitSession /\ [][NextSession]_vars

\* Streams: viewers ask for streams and stop them, the connection may drop
\* once, the camera hardware is steady.
InitStream ==
    InitWith([faults |-> 1, workers |-> MaxWorkers, captures |-> 0, hw |-> 0,
              signals |-> 1], {"ok", "down"})

NextStream == Supervisor \/ (\E w \in WorkerIds : Worker(w)) \/ Signal \/ ConnDrop

Spec == InitStream /\ [][NextStream]_vars

\* Captures: a viewer asks for a still capture while another streams, and
\* the camera hardware changes its condition.
InitCamera ==
    InitWith([faults |-> 1, workers |-> 1, captures |-> MaxCaptures,
              hw |-> MaxHwChanges, signals |-> 0], HwModes)

NextCamera == Supervisor \/ (\E w \in WorkerIds : Worker(w)) \/ HwChange \/ ConnDrop

SpecCamera == InitCamera /\ [][NextCamera]_vars


\* The event loop resumes every task whose sleep or receive timeout has
\* ended: main(), the innermost main_loop(), and of the routers, of the ping
\* loops and of the status loops one that can run.  The environment owes
\* nothing.
Fairness ==
    /\ WF_vars(Main)
    /\ WF_vars(MainLoop)
    /\ WF_vars(\E i \in Tasks : Handler(i))
    /\ WF_vars(\E i \in Tasks : Ping(i))
    /\ WF_vars(\E i \in Tasks : Status(i))

SpecSessionFair == SpecSession /\ Fairness

\* A stream worker against a connection that is lost and a camera that may
\* stop delivering, without signals and within the 30 s and 60 s the
\* keepalive loops sleep: the event loop resumes main(), main_loop(), the
\* routers, and the worker when its sleep has ended.
InitWorkers ==
    InitWith([faults |-> 1, workers |-> 1, captures |-> 0, hw |-> 1,
              signals |-> 0], {"ok"})
NextWorkers ==
    \/ Main
    \/ MainLoop
    \/ \E i \in Tasks : Handler(i)
    \/ \E w \in WorkerIds : Worker(w)
    \/ HwChange
    \/ ConnDrop
SpecWorkersFair ==
    /\ InitWorkers /\ [][NextWorkers]_vars
    /\ WF_vars(Main)
    /\ WF_vars(MainLoop)
    /\ WF_vars(\E i \in Tasks : Handler(i))
    /\ WF_vars(\E w \in WorkerIds : Worker(w))

\* -------------------------------------------------------------- properties

WorkerSet == 1..Len(workers)

\* C1: at most one start_video_stream task is inside its streaming loop per
\* viewer at any time (a second stream_request for the viewer is a no-op).
C1_OneWorkerPerViewer ==
    \A w1, w2 \in WorkerSet :
        (w1 # w2 /\ Streaming(workers[w1]) /\ Streaming(workers[w2]))
            => workers[w1].cid # workers[w2].cid

\* A step in which worker w sent a frame.
SentFrame(w) == ev'.op = "frame" /\ ev'.by = w

\* C4: a worker that was streaming when the router handled stop_stream for
\* its viewer (and no stream_request for the viewer was routed since) sends
\* at most the frame of the pass it is in: the step in which it sends a
\* frame is the step in which it leaves its loop.
C4_StopEndsStream ==
    [][\A w \in WorkerSet :
          (workers[w].stopped /\ SentFrame(w)) => workers'[w].pc = "done"]_vars

\* The router of cohort i handles stop_stream{v} in this step.
RoutesStop(i, v) ==
    /\ i \in 1..Len(sess) /\ sess[i].h = "recv" /\ WsOpen(S)
    /\ Apply(handle_server_messages(Cur, i, <<"stop_stream", v>>, "ok"))

\* C5: every frame carries the client_id of the worker that sent it, and
\* the routing of stop_stream{v} leaves every other viewer's registry entry
\* and workers as they were.
C5_StreamsIndependent ==
    [][/\ ev'.op = "frame" => ev'.tag = workers'[ev'.by].cid
       /\ \A i \in Tasks, v \in Viewers :
             RoutesStop(i, v) =>
                /\ \A u \in DOMAIN active_streams \ {v} :
                      u \in DOMAIN active_streams'
                         /\ active_streams'[u] = active_streams[u]
                /\ \A w \in WorkerSet :
                      workers[w].cid # v => workers'[w] = workers[w]]_vars

\* C5's case: A and B stream, stop_stream{A} has been handled, A's worker
\* has not yet left its loop, and B's worker has just sent a frame.
C5_Witness ==
    /\ DOMAIN active_streams = {"A", "B"}
    /\ ~active_streams["A"] /\ active_streams["B"]
    /\ \E a, b \in WorkerSet :
          /\ workers[a].cid = "A" /\ workers[a].stopped /\ Streaming(workers[a])
          /\ workers[b].cid = "B" /\ workers[b].pc = "pace"
          /\ ev.op = "frame" /\ ev.by = b /\ ev.tag = "B"

\* C10: when main() has finished, every task of every cohort has ended,
\* every stream worker has ended, every connection is closed and the camera
\* is torn down.
C10_TeardownBeforeExit ==
    mpc = "done" =>
        /\ sess = <<>>
        /\ \A w \in WorkerSet : workers[w].pc = "done"
        /\ \A c \in 1..Len(conn) : conn[c] = "closed"
        /\ ~cam.handle /\ ~cam.initialized


\* The cohort of activation n is serving: its router is in its receive loop.
Serving(n) == Len(sess) = n /\ sess[n].ml = "gather" /\ sess[n].h = "recv"

\* The connection of the serving cohort is closed.
LostServing ==
    sess # <<>> /\ Serving(Len(sess)) /\ conn[sess[Len(sess)].c] = "closed"

\* The innermost main_loop() activation is at position ml.
TopAt(ml) == sess # <<>> /\ sess[Len(sess)].ml = ml

\* This step starts the cohort of activation n.
StartsCohort(n) ==
    /\ Len(sess') >= n /\ sess'[n].ml = "gather"
    /\ Len(sess) >= n /\ sess[n].ml = "confirm"

\* C2: when the connection of the serving cohort is closed, then, unless the
\* stop signal is raised, main_loop() is eventually entered again and has
\* run connect_and_register() up to the opening of a connection or to a
\* refused registration; and a cohort is only ever started on a connection
\* that is open, is the current one and is the connection of no earlier
\* cohort.
C2_ReconnectsOnNewConnection ==
    /\ LostServing ~> (stop_event \/ TopAt("connect") \/ TopAt("sleep10"))
    /\ [][\A n \in Tasks :
            StartsCohort(n) =>
               /\ sess'[n].c = websocket' /\ conn'[sess'[n].c] = "open"
               /\ \A m \in 1..(n - 1) : sess'[m].c # sess'[n].c]_vars

\* C2's case: the first connection was closed while serving, and the second
\* activation serves on the second connection.
C2_Witness ==
    /\ ~stop_event /\ Serving(2)
    /\ sess[1].c = 1 /\ conn[1] = "closed"
    /\ sess[2].c = 2 /\ websocket = 2 /\ conn[2] = "open"

\* C3: after every failed register/connect attempt (main_loop() waiting its
\* 10 s before it returns), unless the stop signal is raised, a connection
\* is eventually being opened again.
C3_AlwaysRetries ==
    TopAt("sleep10") ~> (stop_event \/ TopAt("connect"))

\* C6: stop_event is set only by the signal handler.
C6_StopOnlyBySignal == stop_event => sigint

\* No capture_and_send_image() call is in progress.
NoCaptureRequest == cpc.pc = "idle" /\ \A i \in 1..Len(sess) : sess[i].h # "capture"

\* C7: when capture_and_send_image() has returned, the file it captured is
\* gone from the capture directory.
C7_CaptureFileRemoved ==
    NoCaptureRequest => \A g \in fs : ~(g.dir = "temp_dir" /\ g.size = "data")

\* C8: when capture_image() has returned there is no zero-byte file at a
\* final path and no scratch file.
C8_NoEmptyOrScratchFile ==
    cpc.pc = "idle" => \A g \in fs : g.size # "empty" /\ g.dir # "tmp"

\* The capture operations between their start and their return.
InFlight ==
    Cardinality({w \in WorkerSet : workers[w].pc \in {"adjust", "backoff"}})
        + (IF cpc.pc # "idle" THEN 1 ELSE 0)

\* C9: at most one capture_image()/capture_frame() call is in flight.
C9_OneCaptureInFlight == InFlight <= 1


\* C11: with the hardware unavailable throughout, the initialize() that
\* main_loop() awaits ends; while it waits between attempts fewer than
\* max_init_attempts attempts have been made, and when it returns, it
\* returns False after exactly max_init_attempts attempts.
C11_InitializeTerminates ==
    /\ (hw.mode = "down" /\ TopAt("init")) ~> ~TopAt("init")
    /\ [](hw.mode = "down" /\ ipc = "delay"
             => cam.current_attempt < max_init_attempts)
    /\ [][(hw.mode = "down" /\ TopAt("init") /\ ~TopAt("init")')
             => (cam'.current_attempt = max_init_attempts /\ ipc' = "idle"
                 /\ ~cam'.initialized)]_vars

\* C11's case: the third attempt against unavailable hardware has failed and
\* initialize() has returned False to main_loop().
C11_Witness ==
    /\ hw.mode = "down" /\ ~env.no_camera /\ camera
    /\ cam.current_attempt = max_init_attempts /\ ipc = "idle"
    /\ ~cam.initialized /\ ~TopAt("init")


\* The router of cohort i is in its receive loop on an open connection.
Receiving(i) == sess[i].h = "recv" /\ WsOpen(S) /\ ~stop_event

\* The state after the router of cohort i has handled stop_stream{v}, from s.
AfterStop(s, i, v) == handle_server_messages(s, i, <<"stop_stream", v>>, "ok")

\* C12: from every state in which the router receives, handling
\* stop_stream{v} twice in a row leaves the router in its loop, creates no
\* registry entry, and ends with the registry and the workers that handling
\* it once gives.
C12_StopStreamIdempotent ==
    \A i \in 1..Len(sess), v \in Viewers :
        Receiving(i) =>
            LET s1 == AfterStop(Cur, i, v)
                s2 == AfterStop(s1, i, v)
            IN  /\ s1.sess[i].h = "recv" /\ s2.sess[i].h = "recv"
                /\ DOMAIN s1.active_streams = DOMAIN active_streams
                /\ s2.active_streams = s1.active_streams
                /\ s2.workers = s1.workers

\* C12's case: stop_stream{A} has been handled for the streaming viewer A,
\* B is not in the registry, and the router is ready for the next message.
C12_Witness ==
    /\ sess # <<>> /\ Receiving(Len(sess))
    /\ DOMAIN active_streams = {"A"} /\ ~active_streams["A"]
    /\ \E w \in WorkerSet : workers[w].cid = "A" /\ workers[w].stopped


\* C13: in a step taken while a token is held no registration call is made
\* and the token stays as it is; every connection is requested with the
\* token held after the step, which is the one held before it if one was.
C13_TokenReused ==
    [][/\ token # 0 => (token' = token /\ nreg' = nreg)
       /\ ev'.op = "connect" =>
             (ev'.tok = token' /\ token' # 0 /\ (token # 0 => ev'.tok = token))]_vars

\* C13's case: after a connection loss the nested main_loop() requests the
\* second connection with the token of the only registration.
C13_Witness ==
    /\ Len(sess) = 2 /\ TopAt("connect") /\ conn = <<"closed">>
    /\ nreg = 1 /\ token = 1 /\ ev.op = "connect" /\ ev.tok = 1


\* The innermost activation waits for the confirmation and this step ends
\* the wait.
EndsConfirm == TopAt("confirm") /\ ~TopAt("confirm")'

\* The wait for the confirmation ended with a message of type connected on
\* the open connection: the environment injected no failure in this step.
GotConnected == WsOpen(S) /\ faults' = faults

\* C14: the wait for the confirmation starts the cohort exactly when a
\* message of type connected arrived; otherwise main_loop() starts no task
\* and waits its 10 s, and when it returns from that wait the connection it
\* opened is closed, which eventually happens.
C14_ConfirmationRequired ==
    /\ [][EndsConfirm =>
            LET n == Len(sess) IN
            /\ Len(sess') = n
            /\ IF GotConnected
               THEN sess'[n].ml = "gather" /\ sess'[n].c = websocket
               ELSE sess'[n] = [sess[n] EXCEPT !.ml = "sleep10"]
                       /\ sess[n].h = "none" /\ sess[n].ping = "none"
                       /\ sess[n].status = "none"]_vars
    /\ [][(TopAt("sleep10") /\ Len(sess') < Len(sess))
             => (websocket' = 0 \/ conn'[websocket'] = "closed")]_vars
    /\ (TopAt("sleep10") /\ WsOpen(S)) ~> ~WsOpen(S)

\* C14's case: the first message on the opened connection was not connected
\* (or none came), main_loop() has returned and the connection is closed.
C14_Witness ==
    /\ sess = <<>> /\ mpc = "sleep5" /\ ~stop_event
    /\ conn = <<"closed">> /\ websocket = 1 /\ faults = 1


\* The cohorts whose ping loop, and whose status loop, has not ended.
PingLoops == {i \in 1..Len(sess) : sess[i].ping = "run"}
StatusLoops == {i \in 1..Len(sess) : sess[i].status = "run"}

\* The connection of every cohort but the innermost is closed.
EarlierConnectionsLost ==
    \A i \in 1..(Len(sess) - 1) : sess[i].c # 0 /\ conn[sess[i].c] = "closed"

\* C15: when the connections of the earlier cohorts are lost, at most one
\* ping loop and at most one status loop are running, and a ping or status
\* message goes out on the connection of the cohort whose loop sent it.
C15_NoOrphanedLoops ==
    EarlierConnectionsLost =>
        /\ Cardinality(PingLoops) <= 1
        /\ Cardinality(StatusLoops) <= 1
        /\ ev.op \in {"ping", "status"} => ev.c = sess[ev.by].c


\* C16: while a cohort is serving, the camera that main_loop() initialized
\* at startup (the hardware is in order throughout) is initialized.
C16_CameraStaysInitialized ==
    (sess # <<>> /\ Serving(Len(sess)) /\ camera /\ hw.mode = "ok")
        => (cam.initialized /\ cam.handle)


\* The connections the device has opened that are open.
OpenConnections == {c \in 1..Len(conn) : conn[c] = "open"}

\* C17: at most one of the connections the device opened is open.
C17_OneOpenConnection == Cardinality(OpenConnections) <= 1


\* A start_video_stream task for v has been created by a router that has
\* not suspended since.
JustRequested(v) ==
    \E w \in WorkerSet : workers[w].cid = v /\ workers[w].pc = "spawned"

\* C18: when the router handles stop_stream{v} right after the
\* stream_request{v} it has routed, the registry holds v's entry afterwards,
\* set to False.
C18_StopAfterRequestFindsEntry ==
    \A i \in 1..Len(sess), v \in Viewers :
        (Receiving(i) /\ JustRequested(v)) =>
            LET s1 == AfterStop(Cur, i, v)
            IN  v \in DOMAIN s1.active_streams /\ ~s1.active_streams[v]


\* C19: every registry entry is the entry of a worker that has started and
\* not ended, and every worker inside its streaming loop has its entry.
C19_RegistryMatchesWorkers ==
    /\ \A v \in DOMAIN active_streams :
          \E w \in WorkerSet : workers[w].cid = v /\ Streaming(workers[w])
    /\ \A w \in WorkerSet :
          Streaming(workers[w]) => workers[w].cid \in DOMAIN active_streams


\* The main_loop() activations that have not returned, and the
\* handle_server_messages() tasks that have not ended.
Activations == Len(sess)
UnfinishedRouters == {i \in 1..Len(sess) : sess[i].h \notin {"none", "done"}}

\* C20: after any number of lost connections at most one main_loop()
\* activation and at most one unfinished router task exist.
C20_NoRecursiveReconnect ==
    EarlierConnectionsLost =>
        (Activations <= 1 /\ Cardinality(UnfinishedRouters) <= 1)


\* The initialize() that capture_image() called after a failed capture
\* returns False in this step.
RecoveryFails ==
    /\ cpc.pc \in {"reinit_sleep", "init"} /\ cpc'.pc = "idle"
    /\ ~env.no_camera /\ ~cam'.initialized

\* C21: when the initialize() called by capture_image() returns False, it
\* has made max_init_attempts attempts, this step's included.
C21_FullBudgetPerInvocation ==
    [][RecoveryFails =>
          cpc.n + cam'.current_attempt - cam.current_attempt
              = max_init_attempts]_vars


\* C22: in a step taken after stop_event is set no registration call is
\* made and no connection is requested.
C22_NoConnectAfterStop ==
    [][stop_event => (nreg' = nreg /\ ev'.op # "connect")]_vars


\* The tasks suspended in websocket.recv(): the routers in their receive
\* loop, and the main_loop() activations waiting for the confirmation.
Receivers ==
    Cardinality({i \in 1..Len(sess) : sess[i].h = "recv"})
        + Cardinality({i \in 1..Len(sess) : sess[i].ml = "confirm"})

\* C23: at most one task is suspended in a receive.
C23_SingleReceiver == Receivers <= 1

\* C23's case: after a reconnect the second router receives on the second
\* connection while the first router is suspended in its call of
\* main_loop().
C23_Witness ==
    /\ Len(sess) = 2 /\ sess[1].h = "nested" /\ sess[2].h = "recv"
    /\ websocket = 2 /\ conn[2] = "open"


\* The current connection is closed.
ConnectionLost == websocket # 0 /\ conn[websocket] = "closed"

\* Every start_video_stream task has ended.
NoWorkerRunning == \A w \in WorkerSet : workers[w].pc = "done"

\* C24: a worker inside its loop that moves on while the connection is not
\* open sends no frame and does not go back to its pacing sleep, and when
\* it has ended its viewer has no registry entry; and when the current
\* connection is closed, eventually every worker has ended.
C24_WorkersEndOnClosedConnection ==
    /\ [][\A w \in WorkerSet :
            (Streaming(workers[w]) /\ ~WsOpen(S)
                /\ workers'[w].pc # workers[w].pc)
              => /\ workers'[w].pc \in {"done", "adjust", "backoff", "retry"}
                 /\ ~SentFrame(w)
                 /\ workers'[w].pc = "done"
                       => workers[w].cid \notin DOMAIN active_streams']_vars
    /\ ConnectionLost ~> NoWorkerRunning

\* C24's case: the connection was lost while A's worker streamed; the
\* worker has ended and A has no entry, before the router has noticed.
C24_Witness ==
    /\ ConnectionLost /\ Len(sess) = 1 /\ sess[1].h = "recv"
    /\ Len(workers) = 1 /\ workers[1].pc = "done" /\ workers[1].cid = "A"
    /\ "A" \notin DOMAIN active_streams


\* The messages the router has no action for in the current state: pong,
\* error, a type it does not know, and stop_stream without a client_id or
\* for a viewer that has no registry entry.
Inert ==
    ({"pong", "error", "other"} \X {"-"})
    \cup {<<"stop_stream", v>> : v \in (Viewers \cup {"-"}) \ DOMAIN active_streams}

\* C25: from every state in which the router receives, handling a pong, an
\* error, a message of a type it does not know, or a stop_stream for a
\* viewer without a registry entry gives the state it started from: the
\* registry, the workers and the connections are as they were, nothing is
\* sent, and the router is at its next receive.
C25_InertMessagesChangeNothing ==
    \A i \in 1..Len(sess), msg \in Inert, ch \in Choices :
        Receiving(i) =>
            LET s1 == handle_server_messages(Cur, i, msg, ch)
            IN  /\ s1.active_streams = active_streams
                /\ s1.workers = workers
                /\ s1.conn = conn /\ s1.websocket = websocket
                /\ s1.ev = NoEv
                /\ s1.sess[i].h = "recv"
                /\ s1 = Cur

\* C25's case: the router receives while A's worker streams and B has no
\* registry entry, so that stop_stream{B} and pong are among the messages
\* that must change nothing.
C25_Witness ==
    /\ sess # <<>> /\ Receiving(Len(sess))
    /\ DOMAIN active_streams = {"A"} /\ active_streams["A"]
    /\ \E w \in WorkerSet : workers[w].cid = "A" /\ workers[w].pc = "pace"
    /\ <<"stop_stream", "B">> \in Inert /\ <<"pong", "-">> \in Inert


\* The loop k ("ping" or "status") of cohort i is at its sleep.
Ticking(i, k) ==
    /\ mpc # "done" /\ ~stop_event
    /\ IF k = "ping" THEN sess[i].ping = "run" ELSE sess[i].status = "run"

\* C26: a ping or a status report that has gone out went out on the
\* current connection, which is open; and a pass of the ping loop or of the
\* status loop that starts while the connection is not open gives the state
\* it started from: nothing is sent and the loop is at its next sleep.
C26_KeepaliveSkipsClosedConnection ==
    /\ ev.op \in {"ping", "status"} =>
          (ev.c = websocket /\ ev.c # 0 /\ conn[ev.c] = "open")
    /\ \A i \in 1..Len(sess), k \in {"ping", "status"}, ch \in Choices :
          (Ticking(i, k) /\ ~WsOpen(S)) =>
              LET s1 == keepalive(Cur, i, k, ch)
              IN  /\ s1.ev = NoEv
                  /\ s1.sess[i].ping = sess[i].ping
                  /\ s1.sess[i].status = sess[i].status
                  /\ s1 = Cur

\* C26's case: the connection a cohort was started on is closed while its
\* ping loop and its status loop are at their sleep, and no stop has been
\* requested.
C26_Witness ==
    /\ sess # <<>> /\ websocket # 0 /\ ~WsOpen(S)
    /\ Ticking(Len(sess), "ping") /\ Ticking(Len(sess), "status")
    /\ sess[Len(sess)].c = websocket


\* C27: every frame that one call of capture_frame() has returned to a
\* worker coming from its pacing sleep, on the picamera2 backend, was
\* captured while the backend's active profile was the streaming profile
\* the call asked for.
C27_FrameTakenWithRequestedProfile ==
    [][\A w \in WorkerSet :
          (workers[w].pc = "pace" /\ SentFrame(w) /\ cam.camera_type = "picamera2")
              => ev'.prof = "stream"]_vars

====
